---- MODULE Spec2Model ----
(***************************************************************************)
(* Model of python-sniffer/sniff.py: the per-port packet-size estimator,   *)
(* the audio/video classification and the per-media-type on/off state      *)
(* that handle_packet maintains for every sniffed UDP packet.              *)
(*                                                                         *)
(* Rates are Python floats in the source.  Here a rate is a fixed-point    *)
(* number with RateScale units per byte; every float division is rounded   *)
(* to the nearest unit, as IEEE division rounds to the nearest double.     *)
(***************************************************************************)
EXTENDS Integers, FiniteSets, TLC

\* ---------------------------------------------------------------- constants
audio_minimum == 50
audio_maximum == 200
window_size == 50
\* the literal of `port["packets_seen"] > 50`
warmup_packets == 50

my_ip == "192.168.0.89"
other_ip == "192.168.0.1"

None == "None"
True == "True"
False == "False"

\* ------------------------------------------------------------------ bounds
\* fixed-point units per byte of a rate
RateScale == 100
\* the per-port count of data-bearing packets saturates at MaxCount
MaxCount == 52

\* the source ports that appear on the wire
Ports == {5004, 5006}
\* the runs explored: per port, the UDP lengths it sends (a keepalive size and
\* a media size).  0 is the length field of a malformed datagram.
Scenarios ==
    { (5004 :> {0, 300}) @@ (5006 :> {0, 300}),
      (5004 :> {30, 60}) @@ (5006 :> {30, 172}) }

VARIABLES
    ports_seen,  \* dict: sport -> [rate, packets_seen, type]
    states,      \* dict: "audio"/"video" -> None/True/False
    packet,      \* the packet handle_packet was last called with
    traffic,     \* per port, the lengths it sends in this run
    sent,        \* per port, what it has sent from my_ip so far
    average,     \* approx_average on its own: the current_average fed back
    sample       \* approx_average on its own: the new_sample fed each time

vars == <<ports_seen, states, packet, traffic, sent, average, sample>>

\* --------------------------------------------------------- approx_average
\* x / window_size, rounded to the nearest unit
FloatDiv(x, w) == (2 * x + w) \div (2 * w)

\* line 17 left out
approx_average_NoDecay(current_average, new_sample) ==
    current_average + FloatDiv(new_sample * RateScale, window_size)

approx_average(current_average, new_sample) ==
    LET a1 == current_average - FloatDiv(current_average, window_size)
    IN  a1 + FloatDiv(new_sample * RateScale, window_size)

\* ---------------------------------------------------------- handle_packet
\* line 28: packets that do not come from my_ip are ignored
Ignored_Never(src) == FALSE

Ignored(src) == src # my_ip

\* lines 35-45: look the port up, or create its record
\* the record created with a rate of 0 instead of the packet's length
Lookup_ZeroRate(sport, len) ==
    IF sport \in DOMAIN ports_seen
    THEN ports_seen[sport]
    ELSE [rate |-> 0, packets_seen |-> 1, type |-> None]

Lookup(sport, len) ==
    IF sport \in DOMAIN ports_seen
    THEN ports_seen[sport]
    ELSE [rate |-> len * RateScale, packets_seen |-> 1, type |-> None]

\* lines 56-60: the type after the warm-up gate
Classify_AudioFirst(rate, packets_seen) ==
    IF packets_seen > warmup_packets
    THEN IF rate > audio_minimum * RateScale THEN "audio"
         ELSE IF rate > audio_maximum * RateScale THEN "video"
         ELSE None
    ELSE None

Classify_GateOffByOne(rate, packets_seen) ==
    IF packets_seen >= warmup_packets
    THEN IF rate > audio_maximum * RateScale THEN "video"
         ELSE IF rate > audio_minimum * RateScale THEN "audio"
         ELSE None
    ELSE None

Classify_OneShot(rate, packets_seen) ==
    IF packets_seen = warmup_packets + 1
    THEN IF rate > audio_maximum * RateScale THEN "video"
         ELSE IF rate > audio_minimum * RateScale THEN "audio"
         ELSE None
    ELSE None

Classify(rate, packets_seen) ==
    IF packets_seen > warmup_packets
    THEN IF rate > audio_maximum * RateScale THEN "video"
         ELSE IF rate > audio_minimum * RateScale THEN "audio"
         ELSE None
    ELSE None

\* lines 49-60: fold the sample into the estimate and try to classify
Identify(port, len) ==
    LET rate == approx_average(port.rate, len)
        seen == port.packets_seen + 1
    IN  [rate |-> rate, packets_seen |-> seen, type |-> Classify(rate, seen)]

\* line 47: the packet is used to identify the port
NeedsIdentify_NoTypeCheck(port, len) == len > audio_minimum

NeedsIdentify_NoLenCheck(port, len) == port.type = None

NeedsIdentify(port, len) == port.type = None /\ len > audio_minimum

\* lines 63-67: a data packet means on, anything smaller means off
Activity_Inverted(len) == IF len > audio_minimum THEN False ELSE True

\* the off branch clears the state
Activity_ClearsWhenSmall(len) == IF len > audio_minimum THEN True ELSE None

Activity(len) == IF len > audio_minimum THEN True ELSE False

\* lines 47-60: the port's record when handle_packet returns
NextPort(port, len) ==
    IF NeedsIdentify(port, len) THEN Identify(port, len) ELSE port

\* lines 47, 62-67: states when handle_packet returns; the elif is not reached
\* by a packet that was used to identify the port
NextStates_Fallthrough(port, len) ==
    LET after == NextPort(port, len)
    IN  IF after.type # None
        THEN [states EXCEPT ![after.type] = Activity(len)]
        ELSE states

\* the else of line 66 left out: a small packet never switches off
NextStates_OnlyActivates(port, len) ==
    IF NeedsIdentify(port, len)
    THEN states
    ELSE IF port.type # None /\ len > audio_minimum
         THEN [states EXCEPT ![port.type] = True]
         ELSE states

NextStates(port, len) ==
    IF NeedsIdentify(port, len)
    THEN states
    ELSE IF port.type # None
         THEN [states EXCEPT ![port.type] = Activity(len)]
         ELSE states

\* what a port has sent from my_ip so far: n data-bearing packets (saturating),
\* the first length, the smallest and the largest length
NoHistory == [n |-> 0, first |-> -1, lo |-> -1, hi |-> -1]

Record(h, len) ==
    [n     |-> IF len > audio_minimum /\ h.n < MaxCount THEN h.n + 1 ELSE h.n,
     first |-> IF h.first = -1 THEN len ELSE h.first,
     lo    |-> IF h.lo = -1 \/ len < h.lo THEN len ELSE h.lo,
     hi    |-> IF len > h.hi THEN len ELSE h.hi]

\* lines 23-69; `known` records whether the lookup of line 36 found the port
handle_packet(src, sport, len) ==
    /\ packet' = [src |-> src, sport |-> sport, len |-> len,
                  known |-> sport \in DOMAIN ports_seen]
    /\ UNCHANGED <<traffic, average, sample>>
    /\ IF Ignored(src)
       THEN UNCHANGED <<ports_seen, states, sent>>
       ELSE LET port == Lookup(sport, len)
            IN  /\ ports_seen' = (sport :> NextPort(port, len)) @@ ports_seen
                /\ states' = NextStates(port, len)
                /\ sent' = [sent EXCEPT ![sport] = Record(@, len)]

NoPacket == [src |-> None, sport |-> 0, len |-> 0, known |-> FALSE]

Init ==
    /\ ports_seen = << >>
    /\ states = [audio |-> None, video |-> None]
    /\ packet = NoPacket
    /\ traffic \in Scenarios
    /\ sent = [p \in Ports |-> NoHistory]
    /\ average = 0
    /\ sample = 0

Next ==
    \E src \in {my_ip, other_ip}, sport \in Ports :
        \E len \in traffic[sport] : handle_packet(src, sport, len)

Spec == Init /\ [][Next]_vars

\* ------------------------------------------- approx_average fed one length
\* lines 15-20 applied again and again to its own result with one sample: the
\* average starts as a packet length (line 40) and the samples are the lengths
\* that pass the test of line 47
AverageInit ==
    /\ ports_seen = << >>
    /\ states = [audio |-> None, video |-> None]
    /\ packet = NoPacket
    /\ traffic \in Scenarios
    /\ sent = [p \in Ports |-> NoHistory]
    /\ \E p \in Ports, q \in Ports :
          /\ average \in {len * RateScale : len \in traffic[p]}
          /\ sample \in {len \in traffic[q] : len > audio_minimum}

FeedSample ==
    /\ average' = approx_average(average, sample)
    /\ UNCHANGED <<ports_seen, states, packet, traffic, sent, sample>>

\* the same length keeps arriving
SpecAverage == AverageInit /\ [][FeedSample]_vars /\ WF_vars(FeedSample)

\* ------------------------------------------------------------- vocabulary
Seen(p) == p \in DOMAIN ports_seen
TypeOf(p) == IF Seen(p) THEN ports_seen[p].type ELSE None
Local(pkt) == pkt.src = my_ip
MediaTypes == {"audio", "video"}

\* ------------------------------------------------------------------ claims
\* the number of equal observations after which C3 expects a classification
WarmupObservations == warmup_packets + 1

AllOfLength(p, L) == sent[p].lo = L /\ sent[p].hi = L

\* C1: once a port's type is audio or video, no later packet (of any length,
\* on any port) changes it to the other type or back to None.
C1_TypeSetAtMostOnce ==
    [][\A p \in Ports :
          (Seen(p) /\ ports_seen[p].type # None)
              => ports_seen'[p].type = ports_seen[p].type]_vars

\* a classified port went on sending data packets, and the other port too
C1_Witness ==
    \E p \in Ports, q \in Ports :
        /\ p # q /\ TypeOf(p) # None
        /\ sent[p].n = MaxCount
        /\ TypeOf(q) = None /\ sent[q].n >= 1
        /\ Local(packet) /\ packet.sport = q

\* C2: a packet whose source is not my_ip leaves ports_seen and states
\* unchanged, whatever its source port and length.
C2_IncomingIgnored ==
    [][~Local(packet') => UNCHANGED <<ports_seen, states>>]_vars

\* an incoming packet was handled on a port that is not known yet, while the
\* other port is classified and reporting
C2_Witness ==
    /\ ~Local(packet) /\ packet.src = other_ip
    /\ ~Seen(packet.sport)
    /\ \E q \in Ports : TypeOf(q) # None /\ states[TypeOf(q)] # None

\* C3: a port whose first WarmupObservations (51) packets from my_ip all have
\* the same length L > audio_minimum is then classified: video if
\* L > audio_maximum, audio otherwise.
C3_UniformClassified ==
    \A p \in Ports :
        LET L == sent[p].hi
        IN  (AllOfLength(p, L) /\ L > audio_minimum
                /\ sent[p].n >= WarmupObservations)
                => TypeOf(p) = (IF L > audio_maximum THEN "video" ELSE "audio")

\* one port has sent 51 packets of one length above audio_maximum, or the
\* two ports have each sent 51 packets of one length between the thresholds
C3_Witness ==
    \/ \E p \in Ports :
          /\ AllOfLength(p, sent[p].hi) /\ sent[p].hi > audio_maximum
          /\ sent[p].n = WarmupObservations /\ TypeOf(p) = "video"
    \/ \A p \in Ports :
          /\ AllOfLength(p, sent[p].hi) /\ sent[p].hi > audio_minimum
          /\ sent[p].hi <= audio_maximum
          /\ sent[p].n = WarmupObservations /\ TypeOf(p) = "audio"

\* C4: a port that has only ever sent packets of length <= audio_minimum is
\* not classified and its packets_seen is at most 1.
C4_SmallOnlyStaysUnclassified ==
    \A p \in Ports :
        (Seen(p) /\ sent[p].hi <= audio_minimum)
            => ports_seen[p].type = None /\ ports_seen[p].packets_seen <= 1

\* a small packet arrived on a port that was already known and had only sent
\* small packets
C4_Witness ==
    /\ Local(packet) /\ packet.known
    /\ sent[packet.sport].hi <= audio_minimum
    /\ sent[packet.sport].hi > 0
    /\ ports_seen[packet.sport].packets_seen = 1

\* C5: a packet from my_ip on a port that was already classified as T sets
\* states[T] to True if its length is > audio_minimum and to False otherwise,
\* and leaves the other media type's state unchanged.
C5_ClassifiedSetsActivity ==
    [][\A T \in MediaTypes :
          (Local(packet') /\ TypeOf(packet'.sport) = T)
              => /\ states'[T] = (IF packet'.len > audio_minimum
                                  THEN True ELSE False)
                 /\ \A U \in MediaTypes \ {T} : states'[U] = states[U]]_vars

\* a small packet on an audio port switched audio off while video stays on
C5_Witness ==
    /\ Local(packet) /\ packet.len <= audio_minimum
    /\ TypeOf(packet.sport) = "audio"
    /\ states["audio"] = False /\ states["video"] = True

\* the packet of this step is the one that classifies its port as T
Classifies(T) ==
    /\ Local(packet')
    /\ TypeOf(packet'.sport) = None
    /\ ports_seen'[packet'.sport].type = T

\* C6 as stated: the packet that classifies a port as T also sets states[T]
\* to True in the same call.
C6_ClassifyingPacketSetsActive ==
    [][\A T \in MediaTypes : Classifies(T) => states'[T] = True]_vars

\* C6 amended: the packet that classifies a port leaves states unchanged;
\* states[T] is first written by a later packet on a classified port.
C6_ClassifyingPacketLeavesStates ==
    [][\A T \in MediaTypes : Classifies(T) => states' = states]_vars

\* a port has just been classified and its media type's state is still None
C6_Witness ==
    /\ Local(packet) /\ packet.len > audio_minimum
    /\ TypeOf(packet.sport) # None
    /\ states[TypeOf(packet.sport)] = None

\* C7: every video port has packets_seen > 50 and rate > audio_maximum; every
\* audio port has packets_seen > 50 and audio_minimum < rate <= audio_maximum.
C7_TypeMatchesRate ==
    \A p \in DOMAIN ports_seen :
        LET port == ports_seen[p]
        IN  /\ port.type = "video"
                => /\ port.packets_seen > warmup_packets
                   /\ port.rate > audio_maximum * RateScale
            /\ port.type = "audio"
                => /\ port.packets_seen > warmup_packets
                   /\ port.rate > audio_minimum * RateScale
                   /\ port.rate <= audio_maximum * RateScale

\* a video port and an audio port exist, the audio one classified on a rate
\* that the first packet pulled away from the length sent afterwards
C7_Witness ==
    \E p \in Ports, q \in Ports :
        /\ TypeOf(p) = "video" /\ TypeOf(q) = "audio"
        /\ ports_seen[q].rate # sent[q].hi * RateScale

\* C8: once a port is classified, no later packet on any port changes its
\* rate or its packets_seen.
C8_ClassifiedFrozen ==
    [][\A p \in Ports :
          (Seen(p) /\ ports_seen[p].type # None)
              => /\ ports_seen'[p].rate = ports_seen[p].rate
                 /\ ports_seen'[p].packets_seen = ports_seen[p].packets_seen]_vars

\* a data packet was handled on a port that was classified before it
C8_Witness ==
    /\ Local(packet) /\ packet.len > audio_minimum
    /\ TypeOf(packet.sport) # None
    /\ states[TypeOf(packet.sport)] = True
    /\ sent[packet.sport].n = MaxCount

\* C9: a packet with length <= 0 or a source port outside 0..65535 is
\* rejected: no record is created or modified and states is unchanged.
C9_InvalidObservationSkipped ==
    [][(packet'.len <= 0 \/ packet'.sport \notin 0..65535)
          => UNCHANGED <<ports_seen, states>>]_vars

\* C10: states starts as None for audio and video; states[T] # None implies
\* that some port is classified as T; a packet on a port that is not yet
\* classified changes neither entry of states.
C10_ActivityOnlyFromClassified ==
    /\ states = [audio |-> None, video |-> None]
    /\ [](\A T \in MediaTypes :
             states[T] # None => \E p \in Ports : TypeOf(p) = T)
    /\ [][(Local(packet') /\ TypeOf(packet'.sport) = None)
             => states' = states]_vars

\* a data packet was handled on an unclassified port while audio has a state
C10_Witness ==
    /\ Local(packet) /\ packet.len > audio_minimum
    /\ TypeOf(packet.sport) = None
    /\ states["audio"] # None

\* C11 as stated: the first packet from my_ip on a port that is not known
\* yet, of any length, only creates the record: afterwards rate = len,
\* packets_seen = 1 and type = None.
C11_FirstPacketOnlyCreates ==
    [][(Local(packet') /\ ~Seen(packet'.sport))
          => ports_seen'[packet'.sport] =
                 [rate |-> packet'.len * RateScale,
                  packets_seen |-> 1,
                  type |-> None]]_vars

\* C12 as stated: a port that has sent 50 or fewer packets of length
\* > audio_minimum (the creating one included) is not classified.
C12_NoTypeBefore51st ==
    \A p \in Ports : sent[p].n <= warmup_packets => TypeOf(p) = None

\* C13: a packet from my_ip with length <= audio_minimum on a port that is
\* known and not classified changes no record and no entry of states.
C13_SmallOnUnclassifiedIsNoOp ==
    [][(/\ Local(packet')
        /\ Seen(packet'.sport)
        /\ TypeOf(packet'.sport) = None
        /\ packet'.len <= audio_minimum)
          => UNCHANGED <<ports_seen, states>>]_vars

\* a small packet was handled on a port that is half way through its warm-up,
\* while the other port is classified and has a state
C13_Witness ==
    /\ Local(packet) /\ packet.known /\ packet.len <= audio_minimum
    /\ TypeOf(packet.sport) = None
    /\ ports_seen[packet.sport].packets_seen > 20
    /\ \E q \in Ports : TypeOf(q) # None /\ states[TypeOf(q)] # None

\* the two ports have sent the same sequence of data-bearing packets: the same
\* number (below saturation) of packets of the same length; they may differ in
\* the small packets sent before, between and after them
SameDataPackets(p, q) ==
    /\ Seen(p) /\ Seen(q)
    /\ sent[p].n = sent[q].n /\ sent[p].n < MaxCount
    /\ sent[p].hi = sent[q].hi

\* C14 as stated: packets of length <= audio_minimum are never folded into
\* the average: two packet sequences that differ only by such packets,
\* inserted anywhere (also as the first packet of the port), give the same
\* rate and the same type.  The two sequences are those of the two ports,
\* which handle_packet treats alike.
C14_SmallPacketsNeverCount ==
    \A p \in Ports, q \in Ports :
        SameDataPackets(p, q)
            => /\ ports_seen[p].rate = ports_seen[q].rate
               /\ ports_seen[p].type = ports_seen[q].type

\* the rate formula of lines 17-18, restated on fixed-point rates
MovedAverage(rate, len) ==
    rate - ((2 * rate + window_size) \div (2 * window_size))
         + ((2 * len * RateScale + window_size) \div (2 * window_size))

\* the decision of lines 57-60, restated
TypeFor(rate) ==
    IF rate > audio_maximum * RateScale THEN "video"
    ELSE IF rate > audio_minimum * RateScale THEN "audio"
    ELSE None

\* C15: the warm-up gate is not a one-shot check: on a port that is still
\* unclassified with packets_seen > 50, every later data-bearing packet
\* updates rate and packets_seen and decides the type again, so the port is
\* classified by the first such packet that leaves rate > audio_minimum.
C15_GateReevaluated ==
    [][\A p \in Ports :
          (/\ Local(packet') /\ packet'.sport = p
           /\ packet'.len > audio_minimum
           /\ Seen(p) /\ ports_seen[p].type = None
           /\ ports_seen[p].packets_seen > warmup_packets)
              => /\ ports_seen'[p].packets_seen = ports_seen[p].packets_seen + 1
                 /\ ports_seen'[p].rate =
                        MovedAverage(ports_seen[p].rate, packet'.len)
                 /\ ports_seen'[p].type = TypeFor(ports_seen'[p].rate)]_vars

\* a port was classified by a packet later than the one that passed the gate
C15_Witness ==
    /\ Local(packet) /\ packet.len > audio_minimum
    /\ TypeOf(packet.sport) = "audio"
    /\ ports_seen[packet.sport].packets_seen > warmup_packets + 1
    /\ states["audio"] = None

\* how far the average is from the sample, in fixed-point units
Distance == average - sample * RateScale
Abs(x) == IF x < 0 THEN -x ELSE x
\* the two divisions of lines 17-18 each round to a unit, so the average
\* settles within one window of units (half a byte at 100 units per byte)
Tolerance == window_size

C17_ActivityNeverBackToNone ==
    [][\A T \in MediaTypes :
          /\ states[T] # None => states'[T] \in {True, False}
          /\ (states[T] = None /\ states'[T] # None)
                => /\ Local(packet') /\ TypeOf(packet'.sport) = T
                   /\ states'[T] \in {True, False}]_vars

\* video has been switched off by a small packet after audio was switched on
C17_Witness ==
    /\ Local(packet) /\ packet.len <= audio_minimum
    /\ TypeOf(packet.sport) = "video"
    /\ states["video"] = False /\ states["audio"] = True

\* the value a packet of this length gives to the state of its media type
OnOff(len) == IF len > audio_minimum THEN True ELSE False

\* C18: states is kept per media type, not per port: states[T] is always the
\* value given by the latest packet from my_ip on any port already classified
\* as T, so with two ports of type T a small packet on one sets states[T] to
\* False even if the other only ever sent data-bearing packets.
C18_ActivityPerMediaType ==
    [][\A T \in MediaTypes :
          IF Local(packet') /\ TypeOf(packet'.sport) = T
          THEN states'[T] = OnOff(packet'.len)
          ELSE states'[T] = states[T]]_vars

\* two ports of one type: a small packet on one switched the type off although
\* the other has only sent data-bearing packets, also after its classification
C18_Witness ==
    \E p \in Ports, q \in Ports :
        /\ p # q /\ TypeOf(p) # None /\ TypeOf(q) = TypeOf(p)
        /\ Local(packet) /\ packet.sport = p /\ packet.len <= audio_minimum
        /\ states[TypeOf(p)] = False
        /\ sent[q].lo > audio_minimum /\ sent[q].n = MaxCount

\* C19: a port whose first packet had length > audio_minimum keeps
\* rate > audio_minimum, so it is classified by the packet that takes
\* packets_seen past 50 and never stays unclassified beyond the gate; a port
\* that is unclassified with packets_seen > 50 had a first packet of
\* length <= audio_minimum.
C19_DataFirstClassifiedAtGate ==
    \A p \in DOMAIN ports_seen :
        LET port == ports_seen[p]
        IN  /\ sent[p].first > audio_minimum
                => /\ port.rate > audio_minimum * RateScale
                   /\ port.packets_seen <= warmup_packets + 1
                   /\ port.packets_seen > warmup_packets => port.type # None
            /\ (port.type = None /\ port.packets_seen > warmup_packets)
                => sent[p].first <= audio_minimum

\* one port, created by a data-bearing packet, was classified at the gate while
\* the other, created by a small packet, is past the gate and unclassified
C19_Witness ==
    \E p \in Ports, q \in Ports :
        /\ sent[p].first > audio_minimum /\ TypeOf(p) # None
        /\ ports_seen[p].packets_seen = warmup_packets + 1
        /\ Seen(q) /\ sent[q].first <= audio_minimum
        /\ ports_seen[q].type = None
        /\ ports_seen[q].packets_seen > warmup_packets

====
